---- MODULE Spec2Model ----
(***************************************************************************)
(* Entity scoring and the threshold sweep of fonduer-apps/hack.             *)
(*                                                                         *)
(* Three sweeps are modelled, selected by `variant`:                        *)
(*   "opamps"       hack/opamps/opamps.py            scoring                *)
(*   "transistors"  hack/transistors/transistors.py  scoring                *)
(*                  (transistors_all.py has the same loop)                  *)
(*   "analysis"     hack/opamps/analysis.py          main                   *)
(* All of them score with entity_level_scores / entity_confusion_matrix of  *)
(* hack/opamps/opamp_utils.py.                                              *)
(*                                                                         *)
(* Numbers.  A Python float is modelled as an exact fraction <<n, d>> in    *)
(* lowest terms with d > 0; float("nan") is <<0, 0>>.  Comparisons follow   *)
(* IEEE 754: every ordered comparison with NaN is false.                    *)
(* Probabilities and thresholds are counted in units of 1/(num - 1), so     *)
(* the grid np.linspace(0, 1, num) is 0, 1, .., num - 1.                    *)
(* Entities (tuples of document and quantities in the code) are the         *)
(* integers 1..NumEnts, which keeps their sort order.                       *)
(***************************************************************************)
EXTENDS Integers, Sequences, FiniteSets, TLC

\* ------------------------------------------------------------------ bounds
\* number of candidates (rows of Y_prob, rows of the probability dump)
NumCands == 2
\* number of distinct entities that candidates and gold rows can denote
NumEnts == 2
\* num: the number of grid points of np.linspace(0, 1, num)
NumGrid == 3

Cands == 1..NumCands
Entities == 1..NumEnts
\* index k stands for the threshold b = k / (NumGrid - 1)
Grid == 0..(NumGrid - 1)
Probs == 0..(NumGrid - 1)

\* ------------------------------------------------------- label constants
ABSTAIN == 0
FALSE_ == 1
TRUE_ == 2

VARIABLES
    variant,      \* which sweep runs
    Y_prob,       \* Y_prob[c]: p[TRUE - 1] of candidate c (score column of row c)
    candEnts,     \* candEnts[c]: the entities candidate c maps to (0, 1 or 2)
    gold_set,     \* the gold entities
    pc,           \* "loop", "pdb", "done" (returned), "raised", "aborted"
    i,            \* index of the next grid point
    b,            \* the loop variable: the threshold of the last iteration
    best_result,  \* the Score kept so far
    best_b,       \* its threshold
    test_score,   \* labels of the last partition (scoring)
    true_pred,    \* candidates accepted by the last partition / rows kept
    results,      \* results[k]: <<b, Score>> of the k-th scoring call that returned a Score
    calls,        \* number of entity_level_scores calls made
    logged,       \* exceptions logged by the sweep
    exc,          \* the exception that left the sweep, or "none"
    gold_rows,    \* get_gold_set: the rows of the gold CSV files, in reading order
    docs,         \* get_gold_set: the docs filter (uppercased names), or NoFilter
    rows_read,    \* get_gold_set: number of rows consumed
    temp_dict,    \* get_gold_set: temp_dict[doc][attr], the recorded value strings
    cand,         \* cand_to_entity: the candidate c
    gain_unit,    \* cand_to_entity: the unit found in the gain span's row
    current_unit, \* cand_to_entity: the unit found in the current span's row
    yielded,      \* cand_to_entity: the entities yielded so far
    matrix,       \* entity_confusion_matrix of the yielded entities and the gold set
    files,        \* files[name]: the rows of a CSV file on disk
    datasets,     \* datasets[split]: per candidate, the rows its entities give
    mismatches,   \* analysis.main: the FP and FN entities of the best score
    args,         \* the arguments of the function being applied
    ret           \* what it returned, raised or handed on

\* the state of get_gold_set that the sweeps do not touch
loaderVars == <<gold_rows, docs, rows_read, temp_dict>>

\* the state of cand_to_entity and of the report writers
mapVars == <<cand, gain_unit, current_unit, yielded, matrix>>
reportVars == <<files, datasets, mismatches>>

\* argument and result of the functions applied on their own
callVars == <<args, ret>>

vars == <<variant, Y_prob, candEnts, gold_set, pc, i, b, best_result, best_b,
          test_score, true_pred, results, calls, logged, exc, loaderVars,
          mapVars, reportVars, callVars>>

\* ------------------------------------------------------------ arithmetic
NaN == <<0, 0>>
IsNaN(x) == x[2] = 0

RECURSIVE gcd(_, _)
gcd(m, n) == IF n = 0 THEN m ELSE gcd(n, m % n)

Abs(n) == IF n < 0 THEN -n ELSE n

\* the fraction n/d (d # 0) in lowest terms with a positive denominator
Frac(n, d) ==
    LET g == gcd(Abs(n), Abs(d))
        s == IF d < 0 THEN -1 ELSE 1
    IN  <<(s * n) \div g, (s * d) \div g>>

FromInt(n) == <<n, 1>>

fmul(x, y) == IF IsNaN(x) \/ IsNaN(y) THEN NaN ELSE Frac(x[1] * y[1], x[2] * y[2])
fadd(x, y) == IF IsNaN(x) \/ IsNaN(y) THEN NaN ELSE Frac(x[1] * y[2] + y[1] * x[2], x[2] * y[2])
\* x / y; Python raises ZeroDivisionError for y = 0, which the callers' guards exclude
fdiv(x, y) == IF IsNaN(x) \/ IsNaN(y) \/ y[1] = 0 THEN NaN ELSE Frac(x[1] * y[2], x[2] * y[1])

\* x > y, x >= y, x == y on floats: false whenever an operand is NaN
fgt(x, y) == ~IsNaN(x) /\ ~IsNaN(y) /\ x[1] * y[2] > y[1] * x[2]
fge(x, y) == ~IsNaN(x) /\ ~IsNaN(y) /\ x[1] * y[2] >= y[1] * x[2]
feq(x, y) == ~IsNaN(x) /\ ~IsNaN(y) /\ x[1] * y[2] = y[1] * x[2]

\* ------------------------------------------------------------- sequences
Range(s) == {s[k] : k \in DOMAIN s}

Min(S) == CHOOSE x \in S : \A y \in S : x <= y

\* sorted(list(S)) for a set of entities
RECURSIVE sorted_descending(_)
sorted_descending(S) ==
    IF S = {} THEN <<>>
    ELSE LET m == CHOOSE x \in S : \A y \in S : x >= y
         IN  <<m>> \o sorted_descending(S \ {m})
RECURSIVE sorted(_)
sorted(S) == IF S = {} THEN <<>> ELSE <<Min(S)>> \o sorted(S \ {Min(S)})

\* ---------------------------------------------------------------- scoring
Score(f1, prec, rec, TP, FP, FN) ==
    [f1 |-> f1, prec |-> prec, rec |-> rec, TP |-> TP, FP |-> FP, FN |-> FN]

\* what entity_level_scores returns for an empty gold set (a bare `return`)
None == [none |-> TRUE]

\* entity_confusion_matrix: pred and gold arrive as sets here (set(x) of a set is
\* the set itself); every caller in the sweep builds a set first
entity_confusion_matrix_swapped(pred, gold) ==
    [TP |-> pred \cap gold, FP |-> gold \ pred, FN |-> pred \ gold]
entity_confusion_matrix(pred, gold) ==
    [TP |-> pred \cap gold, FP |-> pred \ gold, FN |-> gold \ pred]

\* prec = TP / (TP + FP) if TP + FP > 0 else float("nan")
prec_zero(TP, FP) == IF TP + FP > 0 THEN Frac(TP, TP + FP) ELSE FromInt(0)
prec_of(TP, FP) == IF TP + FP > 0 THEN Frac(TP, TP + FP) ELSE NaN

\* rec = TP / (TP + FN) if TP + FN > 0 else float("nan")
rec_over_pred(TP, FN) == IF TP + FN > 0 THEN Frac(TP, 2 * TP + FN) ELSE NaN
rec_of(TP, FN) == IF TP + FN > 0 THEN Frac(TP, TP + FN) ELSE NaN

\* f1 = 2 * (prec * rec) / (prec + rec) if prec + rec > 0 else float("nan")
f1_no_factor(prec, rec) ==
    IF fgt(fadd(prec, rec), FromInt(0))
    THEN fdiv(fmul(prec, rec), fadd(prec, rec))
    ELSE NaN
f1_of(prec, rec) ==
    IF fgt(fadd(prec, rec), FromInt(0))
    THEN fdiv(fmul(FromInt(2), fmul(prec, rec)), fadd(prec, rec))
    ELSE NaN

\* the entities cand_to_entity yields for the candidates of the list cs, in order
RECURSIVE entity_stream(_)
entity_stream(cs) ==
    IF cs = <<>> THEN <<>>
    ELSE sorted(candEnts[Head(cs)]) \o entity_stream(Tail(cs))

\* entity_level_scores(candidates): None for an empty gold set, else the Score
entity_level_scores(candidates) ==
    IF Cardinality(gold_set) = 0 THEN None
    ELSE
        LET entities == Range(entity_stream(candidates))
            cm == entity_confusion_matrix(entities, gold_set)
            TP == Cardinality(cm.TP)
            FP == Cardinality(cm.FP)
            FN == Cardinality(cm.FN)
            prec == prec_of(TP, FP)
            rec == rec_of(TP, FN)
            f1 == f1_of(prec, rec)
        IN  Score(f1, prec, rec, sorted(cm.TP), sorted(cm.FP), sorted(cm.FN))

\* ------------------------------------------------------------ partitions
\* p[TRUE - 1] > b
accepts_ge(p, t) == p >= t
accepts_below(p, t) == p < t
accepts(p, t) == p > t

\* test_score = [TRUE if p[TRUE - 1] > b else 3 - TRUE for p in Y_prob]
partition(t) == [c \in Cands |-> IF accepts(Y_prob[c], t) THEN TRUE_ ELSE 3 - TRUE_]

\* the ascending list of the members of a set of candidates
RECURSIVE cand_list(_)
cand_list(S) == IF S = {} THEN <<>> ELSE <<Min(S)>> \o cand_list(S \ {Min(S)})

\* np.where(test_score == TRUE): the indices labelled TRUE, ascending
where_true(ts) == cand_list({c \in Cands : ts[c] = TRUE_})

\* np.nditer over a zero-sized operand raises ValueError
\* ("Iteration of zero-sized operands is not enabled")
nditer_zerosize_ok(idx) == FALSE
nditer_raises(idx) == Len(idx) = 0

\* get_entity_set(file, b): the rows whose score exceeds b; a malformed row
\* (candEnts[c] = {}) raises inside the try and is skipped
get_entity_set(t) == cand_list({c \in Cands : accepts(Y_prob[c], t) /\ candEnts[c] # {}})

\* ------------------------------------------------------------- the sweeps
Variants == {"opamps", "transistors", "analysis"}

IsNone(r) == "none" \in DOMAIN r

\* Score(0, 0, 0, [], [], [])
InitialScore == Score(FromInt(0), FromInt(0), FromInt(0), <<>>, <<>>, <<>>)

\* the number of grid points: np.linspace(0, 1, num=num)
num_plus_one == NumGrid + 1
num == NumGrid

\* if result.f1 > best_result.f1
improves_reversed(result, best) == fgt(best.f1, result.f1)
improves_on_tie(result, best) == fge(result.f1, best.f1)
improves(result, best) == fgt(result.f1, best.f1)

\* a candidate maps to zero, one or two entities; a row of the probability dump
\* to one entity, or to none when it is malformed
EntSets(v) ==
    {S \in SUBSET Entities : Cardinality(S) <= (IF v = "analysis" THEN 1 ELSE 2)}

\* no candidate is being mapped, no report is being written
mapIdle ==
    /\ cand = <<>>
    /\ gain_unit = ""
    /\ current_unit = ""
    /\ yielded = <<>>
    /\ matrix = <<>>
reportIdle ==
    /\ files = <<>>
    /\ datasets = <<>>
    /\ mismatches = <<>>
callIdle ==
    /\ args = <<>>
    /\ ret = <<>>

\* docs=None
NoFilter == [given |-> FALSE, names |-> {}]
Filter(names) == [given |-> TRUE, names |-> names]

\* The inputs of a sweep.  The code treats candidates as a set and entities as
\* opaque values, so the inputs are taken up to renaming: the candidates are
\* numbered by descending probability and the gold entities are numbered first.
Init ==
    /\ variant \in Variants
    /\ Y_prob \in {f \in [Cands -> Probs] :
                       \A c, d \in Cands : c < d => f[c] >= f[d]}
    /\ candEnts \in [Cands -> EntSets(variant)]
    /\ gold_set \in {1..k : k \in 0..NumEnts}
    /\ pc = IF variant = "analysis" THEN "start" ELSE "loop"
    /\ i = 0
    /\ b = 0
    /\ best_result = InitialScore
    /\ best_b = 0
    /\ test_score = <<>>
    /\ true_pred = <<>>
    /\ results = <<>>
    /\ calls = 0
    /\ logged = <<>>
    /\ exc = "none"
    /\ gold_rows = <<>>
    /\ docs = NoFilter
    /\ rows_read = 0
    /\ temp_dict = <<>>
    /\ mapIdle
    /\ reportIdle
    /\ callIdle

\* the effect of one scored threshold: result is a Score, or None after
\* logger.error("Gold set is empty.") (reading result.f1 of None raises
\* AttributeError)
Scored_keeps_b(t, result, caught) ==
    IF IsNone(result)
    THEN /\ IF caught
            THEN /\ logged' = logged \o <<"Gold set is empty.", "AttributeError">>
                 /\ pc' = "done"
                 /\ exc' = exc
            ELSE /\ exc' = "AttributeError"
                 /\ pc' = "raised"
                 /\ logged' = Append(logged, "Gold set is empty.")
         /\ UNCHANGED <<i, best_result, best_b, results>>
    ELSE /\ results' = Append(results, <<t, result>>)
         /\ IF improves(result, best_result)
            THEN best_result' = result /\ best_b' = best_b
            ELSE UNCHANGED <<best_result, best_b>>
         /\ i' = i + 1
         /\ UNCHANGED <<pc, logged, exc>>
Scored(t, result, caught) ==
    IF IsNone(result)
    THEN /\ IF caught
            THEN /\ logged' = logged \o <<"Gold set is empty.", "AttributeError">>
                 /\ pc' = "done"
                 /\ exc' = exc
            ELSE /\ exc' = "AttributeError"
                 /\ pc' = "raised"
                 /\ logged' = Append(logged, "Gold set is empty.")
         /\ UNCHANGED <<i, best_result, best_b, results>>
    ELSE /\ results' = Append(results, <<t, result>>)
         /\ IF improves(result, best_result)
            THEN best_result' = result /\ best_b' = t
            ELSE UNCHANGED <<best_result, best_b>>
         /\ i' = i + 1
         /\ UNCHANGED <<pc, logged, exc>>

\* one iteration of `for b in np.linspace(0, 1, num=num)` of scoring;
\* try_all: the try block also covers entity_level_scores and the comparison
\* (transistors), otherwise only the partition (opamps)
SweepIteration(try_all) ==
    LET ts == partition(i)
        idx == where_true(ts)
    IN  /\ b' = i
        /\ test_score' = ts
        /\ IF nditer_raises(idx)
           THEN \* except Exception as e: logger.debug(f"{e}, skipping."); break
                /\ logged' = Append(logged, "ValueError")
                /\ pc' = "done"
                /\ UNCHANGED <<i, best_result, best_b, true_pred, results, calls, exc>>
           ELSE /\ true_pred' = idx
                /\ calls' = calls + 1
                /\ Scored(i, entity_level_scores(idx), try_all)

scoring ==
    /\ pc = "loop"
    /\ variant = "opamps"
    /\ i < num
    /\ SweepIteration(FALSE)
    /\ UNCHANGED <<loaderVars, mapVars, reportVars, callVars>>
    /\ UNCHANGED <<variant, Y_prob, candEnts, gold_set>>

scoring_transistors ==
    /\ pc = "loop"
    /\ variant = "transistors"
    /\ i < num
    /\ SweepIteration(TRUE)
    /\ UNCHANGED <<loaderVars, mapVars, reportVars, callVars>>
    /\ UNCHANGED <<variant, Y_prob, candEnts, gold_set>>

\* analysis.main: if a gold set is empty, logger.error and pdb.set_trace()
main_gold_check ==
    /\ pc = "start"
    /\ IF Cardinality(gold_set) = 0
       THEN /\ logged' = Append(logged, "Gold is empty")
            /\ pc' = "pdb"
       ELSE /\ logged' = logged
            /\ pc' = "loop"
    /\ UNCHANGED <<loaderVars, mapVars, reportVars, callVars>>
    /\ UNCHANGED <<variant, Y_prob, candEnts, gold_set, i, b, best_result, best_b,
                   test_score, true_pred, results, calls, exc>>

\* the operator at the debugger prompt continues, or quits (bdb.BdbQuit)
pdb_continue ==
    /\ pc = "pdb"
    /\ pc' = "loop"
    /\ UNCHANGED <<loaderVars, mapVars, reportVars, callVars>>
    /\ UNCHANGED <<variant, Y_prob, candEnts, gold_set, i, b, best_result, best_b,
                   test_score, true_pred, results, calls, logged, exc>>

pdb_quit ==
    /\ pc = "pdb"
    /\ pc' = "aborted"
    /\ exc' = "BdbQuit"
    /\ UNCHANGED <<loaderVars, mapVars, reportVars, callVars>>
    /\ UNCHANGED <<variant, Y_prob, candEnts, gold_set, i, b, best_result, best_b,
                   test_score, true_pred, results, calls, logged>>

\* one iteration of `for b in tqdm(np.linspace(0.0, 1, num=1000))` of analysis.main
\* for one of its data sets: no try block
main_iteration ==
    /\ pc = "loop"
    /\ variant = "analysis"
    /\ i < num
    /\ LET rows == get_entity_set(i)
       IN  /\ b' = i
           /\ true_pred' = rows
           /\ calls' = calls + 1
           /\ Scored(i, entity_level_scores(rows), FALSE)
    /\ UNCHANGED <<loaderVars, mapVars, reportVars, callVars>>
    /\ UNCHANGED <<variant, Y_prob, candEnts, gold_set, test_score>>

\* the grid is exhausted: return best_result, best_b
sweep_return ==
    /\ pc = "loop"
    /\ i = num
    /\ pc' = "done"
    /\ UNCHANGED <<loaderVars, mapVars, reportVars, callVars>>
    /\ UNCHANGED <<variant, Y_prob, candEnts, gold_set, i, b, best_result, best_b,
                   test_score, true_pred, results, calls, logged, exc>>

Next ==
    \/ scoring
    \/ scoring_transistors
    \/ main_gold_check
    \/ pdb_continue
    \/ pdb_quit
    \/ main_iteration
    \/ sweep_return

Spec == Init /\ [][Next]_vars

\* the loop is a plain for loop: every enabled step is eventually taken
FairSpec == Spec /\ WF_vars(Next)

TypeOK ==
    /\ variant \in Variants
    /\ pc \in {"start", "loop", "pdb", "done", "raised", "aborted"}
    /\ i \in 0..NumGrid
    /\ b \in Grid
    /\ best_b \in Grid
    /\ calls \in 0..NumGrid

\* ---------------------------------------------------------- get_gold_set
\* A value string of a gold row is modelled by its parts:
\*   sign  "±" or ""            what the string starts with
\*   num   the numeral (an integer here)
\*   dec   TRUE when the numeral is written with a decimal point ("10.0")
\*   unit  the text after the space
\*   form  "ok"       <numeral> <unit>, separated by exactly one space
\*         "nospace"  no space between numeral and unit ("±5mA")
\*         "nan"      the numeral is not a number ("abc kHz")
Value(sign, n, dec, unit, form) ==
    [sign |-> sign, num |-> n, dec |-> dec, unit |-> unit, form |-> form]

\* number of rows in the gold files
MaxRows == 2

GainValues ==
    { Value("", 1, FALSE, "MHz", "ok"),
      Value("", 1000, FALSE, "kHz", "ok"),
      Value("±", 500, FALSE, "kHz", "ok"),
      Value("", 0, FALSE, "kHz", "nan") }
CurrentValues ==
    { Value("", 5, FALSE, "uA", "ok"),
      Value("±", 5, FALSE, "mA", "ok"),
      Value("±", 5, FALSE, "mA", "nospace") }

DocNames == {"lm358", "LM358", "OPA2"}
UpperNames == {"LM358", "OPA2"}

\* str.upper()
upper(doc) == IF doc = "lm358" THEN "LM358" ELSE doc

\* a row of the CSV file: cols is the number of its columns
Row(cols, doc, attr, val) == [cols |-> cols, doc |-> doc, attr |-> attr, val |-> val]

GoldRows ==
    {Row(4, d, "typ_gbp", v) : d \in DocNames, v \in GainValues}
    \cup {Row(4, d, "typ_supply_current", v) : d \in DocNames, v \in CurrentValues}
    \cup {Row(4, d, "typ_offset", Value("±", 5, FALSE, "mV", "ok")) : d \in DocNames}
    \cup {Row(3, "OPA2", "typ_gbp", Value("", 1, FALSE, "MHz", "ok"))}

\* if docs is None or doc.upper() in docs
passes(doc, filter) == ~filter.given \/ upper(doc) \in filter.names

\* val[1:]
strip_sign(val) == [val EXCEPT !.sign = ""]

\* f"{str(2 * float(value[1:]))} {unit}": str of a float always shows a decimal point
doubled_same(val) == Value("", val.num, TRUE, val.unit, "ok")
doubled(val) == Value("", 2 * val.num, TRUE, val.unit, "ok")

\* (value, unit) = val.split(" ") and float(value[1:]) raise ValueError unless
\* the string is <numeral> <unit>
expansion_raises(val) == val.form # "ok"

\* the strings one row adds to temp_dict[doc][attr]
recorded(val) ==
    IF val.sign = "±" THEN {doubled(val), strip_sign(val)} ELSE {val}

EmptyEntry == [typ_gbp |-> {}, typ_supply_current |-> {}]

\* the multiplier of a unit's SI prefix (frequencies in Hz, currents in uA)
prefix_ignored(unit) == 1
prefix(unit) ==
    CASE unit = "kHz" -> 1000
      [] unit = "MHz" -> 1000000
      [] unit = "GHz" -> 1000000000
      [] unit = "uA" -> 1
      [] unit = "μA" -> 1
      [] unit = "mA" -> 1000
      [] unit = "A" -> 1000000
      [] OTHER -> 1

\* current.replace("u", "μ")
replace_u(val) == IF val.unit = "uA" THEN [val EXCEPT !.unit = "μA"] ELSE val

\* Quantity(text): a float (its unit takes no part in == or hash); raises unless
\* the text is a number followed by a unit
quantity_raises(val) == val.form # "ok" \/ val.sign # ""
Quantity(val) == val.num * prefix(val.unit)

\* the tuples of one document: for gain in ...: for current in ...: gold_set.add
doc_entities_first_current(doc, values) ==
    IF values["typ_supply_current"] = {} THEN {}
    ELSE LET c == CHOOSE x \in values["typ_supply_current"] : TRUE
         IN  {<<upper(doc), Quantity(g), Quantity(replace_u(c))>> :
                  g \in values["typ_gbp"]}
doc_entities(doc, values) ==
    {<<upper(doc), Quantity(g), Quantity(replace_u(c))>> :
        g \in values["typ_gbp"], c \in values["typ_supply_current"]}

\* a Quantity(...) call of the pairing loops raises
doc_raises(values) ==
    /\ values["typ_gbp"] # {}
    /\ values["typ_supply_current"] # {}
    /\ \/ \E g \in values["typ_gbp"] : quantity_raises(g)
       \/ \E c \in values["typ_supply_current"] : quantity_raises(replace_u(c))

RowSeqs == UNION {[1..n -> GoldRows] : n \in 1..MaxRows}

GoldInit ==
    /\ variant = "get_gold_set"
    /\ gold_rows \in RowSeqs
    /\ docs \in {NoFilter, Filter({"LM358"}), Filter({"OPA2"})}
    /\ rows_read = 0
    /\ temp_dict = <<>>
    /\ gold_set = {}
    /\ pc = "read"
    /\ logged = <<>>
    /\ exc = "none"
    /\ Y_prob = <<>>
    /\ candEnts = <<>>
    /\ i = 0
    /\ b = 0
    /\ best_result = InitialScore
    /\ best_b = 0
    /\ test_score = <<>>
    /\ true_pred = <<>>
    /\ results = <<>>
    /\ calls = 0
    /\ mapIdle
    /\ reportIdle
    /\ callIdle

sweepOnly == <<Y_prob, candEnts, i, b, best_result, best_b, test_score,
               true_pred, results, calls>>

\* one iteration of `for row in gold_reader`
read_gold_row ==
    /\ variant = "get_gold_set"
    /\ pc = "read"
    /\ rows_read < Len(gold_rows)
    /\ LET row == gold_rows[rows_read + 1]
           doc == row.doc
           keyed == IF doc \in DOMAIN temp_dict THEN temp_dict
                    ELSE temp_dict @@ (doc :> EmptyEntry)
           wanted == /\ passes(doc, docs)
                     /\ row.attr \in {"typ_gbp", "typ_supply_current"}
       IN  /\ rows_read' = rows_read + 1
           /\ IF row.cols # 4
              THEN \* (doc, part, attr, val) = row
                   /\ pc' = "raised"
                   /\ exc' = "ValueError"
                   /\ temp_dict' = temp_dict
              ELSE IF wanted /\ row.val.sign = "±" /\ expansion_raises(row.val)
              THEN /\ pc' = "raised"
                   /\ exc' = "ValueError"
                   /\ temp_dict' = keyed
              ELSE /\ pc' = pc
                   /\ exc' = exc
                   /\ temp_dict' =
                        IF wanted
                        THEN [keyed EXCEPT ![doc][row.attr] = @ \cup recorded(row.val)]
                        ELSE keyed
    /\ UNCHANGED <<variant, gold_rows, docs, gold_set, logged>>
    /\ UNCHANGED <<sweepOnly, mapVars, reportVars, callVars>>

\* the pairing loops over temp_dict, and return gold_set
build_gold_set ==
    /\ variant = "get_gold_set"
    /\ pc = "read"
    /\ rows_read = Len(gold_rows)
    /\ IF \E d \in DOMAIN temp_dict : doc_raises(temp_dict[d])
       THEN /\ pc' = "raised"
            /\ exc' = "InvalidNumber"
            /\ gold_set' = gold_set
       ELSE /\ pc' = "done"
            /\ exc' = exc
            /\ gold_set' = UNION {doc_entities(d, temp_dict[d]) : d \in DOMAIN temp_dict}
    /\ UNCHANGED <<variant, gold_rows, docs, rows_read, temp_dict, logged>>
    /\ UNCHANGED <<sweepOnly, mapVars, reportVars, callVars>>

GoldNext == read_gold_row \/ build_gold_set

GoldSpec == GoldInit /\ [][GoldNext]_vars

\* -------------------------------------------------------- cand_to_entity
\* A candidate c: the document name, the texts of the two spans (a Value
\* without unit) and the n-grams of the table rows the spans sit in.
Candidate(doc, gain, current, gain_row, current_row) ==
    [doc |-> doc, gain |-> gain, current |-> current,
     gain_row |-> gain_row, current_row |-> current_row]

SpanText(sign, n, form) == Value(sign, n, FALSE, "", form)

GainSpans ==
    { SpanText("", 1, "ok"), SpanText("", 1000, "ok"),
      SpanText("±", 1, "ok"), SpanText("", 0, "nan") }
CurrentSpans ==
    { SpanText("", 5, "ok"), SpanText("±", 5, "ok"), SpanText("", 5000, "ok"),
      SpanText("", 0, "nan"), SpanText("±", 0, "nan") }

\* "<U+F06D>A" stands for the unit written with Adobe's private-use mu
GainRowNgrams == {"kHz", "MHz", "typ"}
CurrentRowNgrams == {"mA", "<U+F06D>A", "V"}

\* _ in ["kHz", "MHz", "GHz"]
is_hertz_unit(ngram) == ngram \in {"kHz", "MHz", "GHz"}

\* _ and _.endswith("A")
ends_with_A(ngram) == ngram \in {"A", "mA", "uA", "μA", "<U+F06D>A"}

\* neither len(ngrams) > 1 nor len(ngrams) == 0
at_least_one_unit(ngrams) == Cardinality(ngrams) >= 1
exactly_one_unit(ngrams) == Cardinality(ngrams) = 1

\* ngrams.pop()
pop(ngrams) == CHOOSE x \in ngrams : TRUE

\* .replace("\\uf06d", "μ")
replace_private_mu(unit) == IF unit = "<U+F06D>A" THEN "μA" ELSE unit

\* f"{text} {unit}"
with_unit(text, unit) == [text EXCEPT !.unit = unit]

\* current.startswith("±")
never_starts_with_pm(text) == FALSE
starts_with_pm(text) == text.sign = "±"

\* the result tuple of lines 115-119, and whether building it raises
doubled_result_raises(c, gu, cu) ==
    \/ quantity_raises(with_unit(c.gain, gu))
    \/ c.current.form # "ok"
doubled_result(c, gu, cu) ==
    <<upper(c.doc), Quantity(with_unit(c.gain, gu)),
      Quantity(doubled(with_unit(c.current, cu)))>>

\* the result tuple of lines 122-126
stripped_result_raises(c, gu, cu) ==
    \/ quantity_raises(with_unit(c.gain, gu))
    \/ quantity_raises(with_unit(strip_sign(c.current), cu))
stripped_result(c, gu, cu) ==
    <<upper(c.doc), Quantity(with_unit(c.gain, gu)),
      Quantity(with_unit(strip_sign(c.current), cu))>>

\* the result tuple of lines 129-133
plain_result_raises(c, gu, cu) ==
    \/ quantity_raises(with_unit(c.gain, gu))
    \/ quantity_raises(with_unit(c.current, cu))
plain_result(c, gu, cu) ==
    <<upper(c.doc), Quantity(with_unit(c.gain, gu)),
      Quantity(with_unit(c.current, cu))>>

CandidateSet ==
    {Candidate(d, g, c, gr, cr) :
        d \in {"lm358", "OPA2"}, g \in GainSpans, c \in CurrentSpans,
        gr \in SUBSET GainRowNgrams, cr \in SUBSET CurrentRowNgrams}

\* the gold file of the mapped candidate's corpus: one typ_gbp row and one
\* typ_supply_current row of LM358
GoldFiles ==
    {<<Row(4, "LM358", "typ_gbp", g), Row(4, "LM358", "typ_supply_current", c)>> :
        g \in {v \in GainValues : v.form = "ok"},
        c \in {v \in CurrentValues : v.form = "ok"}}

MapInit ==
    /\ variant = "cand_to_entity"
    /\ cand \in CandidateSet
    /\ gold_rows \in GoldFiles
    /\ gold_set = doc_entities("LM358",
                     [typ_gbp |-> recorded(gold_rows[1].val),
                      typ_supply_current |-> recorded(gold_rows[2].val)])
    /\ docs = NoFilter
    /\ rows_read = 2
    /\ temp_dict = <<>>
    /\ gain_unit = ""
    /\ current_unit = ""
    /\ yielded = <<>>
    /\ matrix = <<>>
    /\ pc = "gain_units"
    /\ logged = <<>>
    /\ exc = "none"
    /\ Y_prob = <<>>
    /\ candEnts = <<>>
    /\ i = 0
    /\ b = 0
    /\ best_result = InitialScore
    /\ best_b = 0
    /\ test_score = <<>>
    /\ true_pred = <<>>
    /\ results = <<>>
    /\ calls = 0
    /\ reportIdle
    /\ callIdle

mapFrame == <<variant, gold_set, sweepOnly, loaderVars, reportVars, callVars,
             cand, exc>>

\* lines 86-93: the hertz units of the gain span's row
gain_units ==
    /\ variant = "cand_to_entity"
    /\ pc = "gain_units"
    /\ LET gain_ngrams == {x \in cand.gain_row : is_hertz_unit(x)}
       IN  IF exactly_one_unit(gain_ngrams)
           THEN /\ pc' = "current_units"
                /\ gain_unit' = pop(gain_ngrams)
                /\ logged' = logged
           ELSE /\ pc' = "returned"
                /\ gain_unit' = gain_unit
                /\ logged' = IF Cardinality(gain_ngrams) > 1
                             THEN Append(logged, "gain_ngrams") ELSE logged
    /\ UNCHANGED <<current_unit, yielded, matrix>>
    /\ UNCHANGED mapFrame

\* lines 95-110: the current units of the current span's row
current_units ==
    /\ variant = "cand_to_entity"
    /\ pc = "current_units"
    /\ LET current_ngrams == {x \in cand.current_row : ends_with_A(x)}
       IN  IF exactly_one_unit(current_ngrams)
           THEN /\ pc' = "try"
                /\ current_unit' = replace_private_mu(pop(current_ngrams))
                /\ logged' = logged
           ELSE /\ pc' = "returned"
                /\ current_unit' = current_unit
                /\ logged' = IF Cardinality(current_ngrams) > 1
                             THEN Append(logged, "current_ngrams") ELSE logged
    /\ UNCHANGED <<gain_unit, yielded, matrix>>
    /\ UNCHANGED mapFrame

\* lines 113-120 and 128-137: the first yield, or the except branch
first_yield ==
    /\ variant = "cand_to_entity"
    /\ pc = "try"
    /\ IF starts_with_pm(cand.current)
       THEN IF doubled_result_raises(cand, gain_unit, current_unit)
            THEN /\ pc' = "returned"
                 /\ yielded' = yielded
                 /\ logged' = Append(logged, "is not valid.")
            ELSE /\ pc' = "second"
                 /\ yielded' = Append(yielded, doubled_result(cand, gain_unit, current_unit))
                 /\ logged' = logged
       ELSE IF plain_result_raises(cand, gain_unit, current_unit)
            THEN /\ pc' = "returned"
                 /\ yielded' = yielded
                 /\ logged' = Append(logged, "is not valid.")
            ELSE /\ pc' = "returned"
                 /\ yielded' = Append(yielded, plain_result(cand, gain_unit, current_unit))
                 /\ logged' = logged
    /\ UNCHANGED <<gain_unit, current_unit, matrix>>
    /\ UNCHANGED mapFrame

\* lines 122-127: the second yield of a ± current
second_yield ==
    /\ variant = "cand_to_entity"
    /\ pc = "second"
    /\ IF stripped_result_raises(cand, gain_unit, current_unit)
       THEN /\ yielded' = yielded
            /\ logged' = Append(logged, "is not valid.")
       ELSE /\ yielded' = Append(yielded, stripped_result(cand, gain_unit, current_unit))
            /\ logged' = logged
    /\ pc' = "returned"
    /\ UNCHANGED <<gain_unit, current_unit, matrix>>
    /\ UNCHANGED mapFrame

\* entity_level_scores, lines 148-153: the yielded entities against the gold set
confusion ==
    /\ variant = "cand_to_entity"
    /\ pc = "returned"
    /\ matrix' = entity_confusion_matrix(Range(yielded), gold_set)
    /\ pc' = "scored"
    /\ UNCHANGED <<gain_unit, current_unit, yielded, logged>>
    /\ UNCHANGED mapFrame

MapNext == gain_units \/ current_units \/ first_yield \/ second_yield \/ confusion

MapSpec == MapInit /\ [][MapNext]_vars

\* ------------------------------------------------------------ CSV reports
\* candidates per split
MaxCands == 1

Splits == {"train", "test", "dev"}

\* a split's candidates: for each candidate the number of entities
\* cand_to_entity yields for it
CandLists == UNION {[1..n -> 0..2] : n \in 0..MaxCands}

\* writer.writerow(["Document", "GBWP (kHz)", "sent", "p"]) or its current twin
header(is_gain) ==
    IF is_gain THEN <<"Document", "GBWP (kHz)", "sent", "p">>
    ELSE <<"Document", "Supply Current (uA)", "sent", "p">>

\* the rows of candidates j..Len(cands): one row per entity, candidates in
\* order; a row is identified by its writer, attribute, split, candidate
\* and entity
RECURSIVE rows_from(_, _, _, _, _)
rows_from(kind, is_gain, split, cands, j) ==
    IF j > Len(cands) THEN <<>>
    ELSE [k \in 1..cands[j] |-> <<kind, is_gain, split, j, k>>]
             \o rows_from(kind, is_gain, split, cands, j + 1)

\* output_csv: what the file holds after the call
filename(is_gain) == IF is_gain THEN "output_gain.csv" ELSE "output_current.csv"
output_csv_header_always(content, split, cands, is_gain, append) ==
    IF append
    THEN content \o <<header(is_gain)>> \o rows_from("output", is_gain, split, cands, 1)
    ELSE <<header(is_gain)>> \o rows_from("output", is_gain, split, cands, 1)
output_csv(content, split, cands, is_gain, append) ==
    IF append
    THEN content \o rows_from("output", is_gain, split, cands, 1)
    ELSE <<header(is_gain)>> \o rows_from("output", is_gain, split, cands, 1)

\* dump_candidates: open(outfile, "w") and one row per entity
probs_file(split, is_gain) ==
    IF is_gain
    THEN (IF split = "test" THEN "gain_test_probs.csv" ELSE "gain_dev_probs.csv")
    ELSE (IF split = "test" THEN "current_test_probs.csv" ELSE "current_dev_probs.csv")
dump_candidates(split, cands, is_gain) == rows_from("dump", is_gain, split, cands, 1)

discrepancy_file == "gain_analysis_discrepancies.csv"

\* compare_entities: rows of one mismatch class, in some order of the set,
\* written over the file or appended to it
compare_entities(content, order, type, append) ==
    (IF append THEN content ELSE <<>>) \o [k \in DOMAIN order |-> <<type, order[k]>>]

\* the orders in which a set can be iterated
orders(set) ==
    {f \in [1..Cardinality(set) -> set] : \A x \in set : \E k \in DOMAIN f : f[k] = x}

FileNames ==
    {filename(g) : g \in BOOLEAN}
    \cup {probs_file(sp, g) : sp \in {"test", "dev"}, g \in BOOLEAN}
    \cup {discrepancy_file}

\* the entities the best score may list as FP or FN
MismatchEntities == {"e1", "e2"}

\* what an earlier run may have left in a file
OldContents == {<<>>, <<header(TRUE), <<"output", TRUE, "train", 1, 1>>>>}

\* the position of main: attribute and split of the next output_csv call
at(is_gain, split) ==
    IF is_gain
    THEN (CASE split = "train" -> "gain train" [] split = "test" -> "gain test"
            [] OTHER -> "gain dev")
    ELSE (CASE split = "train" -> "current train" [] split = "test" -> "current test"
            [] OTHER -> "current dev")

ReportInit ==
    /\ variant = "report"
    /\ files \in {[f \in FileNames |-> old] : old \in OldContents}
    /\ datasets \in [Splits -> CandLists]
    /\ mismatches \in {m \in [FP : SUBSET MismatchEntities, FN : SUBSET MismatchEntities] :
                          m.FP \cap m.FN = {}}
    /\ pc = at(TRUE, "train")
    /\ gold_set = {}
    /\ logged = <<>>
    /\ exc = "none"
    /\ Y_prob = <<>>
    /\ candEnts = <<>>
    /\ i = 0
    /\ b = 0
    /\ best_result = InitialScore
    /\ best_b = 0
    /\ test_score = <<>>
    /\ true_pred = <<>>
    /\ results = <<>>
    /\ calls = 0
    /\ gold_rows = <<>>
    /\ docs = NoFilter
    /\ rows_read = 0
    /\ temp_dict = <<>>
    /\ mapIdle
    /\ callIdle

reportFrame == <<variant, gold_set, logged, exc, sweepOnly, loaderVars, mapVars,
                 callVars, datasets, mismatches>>

\* opamps.main: output_csv(train_cands[k], Y_prob, is_gain=...)
output_train ==
    /\ variant = "report"
    /\ \E g \in BOOLEAN :
          /\ pc = at(g, "train")
          /\ files' = [files EXCEPT ![filename(g)] =
                           output_csv(@, "train", datasets["train"], g, FALSE)]
          /\ pc' = at(g, "test")
    /\ UNCHANGED reportFrame

\* opamps.main: output_csv(test_cands[k], ..., append=True); dump_candidates(...)
output_test ==
    /\ variant = "report"
    /\ \E g \in BOOLEAN :
          /\ pc = at(g, "test")
          /\ files' = [files EXCEPT
                ![filename(g)] = output_csv(@, "test", datasets["test"], g, TRUE),
                ![probs_file("test", g)] = dump_candidates("test", datasets["test"], g)]
          /\ pc' = at(g, "dev")
    /\ UNCHANGED reportFrame

\* opamps.main: output_csv(dev_cands[k], ..., append=True); dump_candidates(...)
output_dev ==
    /\ variant = "report"
    /\ \E g \in BOOLEAN :
          /\ pc = at(g, "dev")
          /\ files' = [files EXCEPT
                ![filename(g)] = output_csv(@, "dev", datasets["dev"], g, TRUE),
                ![probs_file("dev", g)] = dump_candidates("dev", datasets["dev"], g)]
          /\ pc' = IF g THEN at(FALSE, "train") ELSE "analysis"
    /\ UNCHANGED reportFrame

\* analysis.main: compare_entities(set(best_score.FP), type="FP", outfile=...)
compare_FP ==
    /\ variant = "report"
    /\ pc = "analysis"
    /\ \E order \in orders(mismatches.FP) :
          files' = [files EXCEPT ![discrepancy_file] =
                        compare_entities(@, order, "FP", FALSE)]
    /\ pc' = "FP written"
    /\ UNCHANGED reportFrame

\* analysis.main: compare_entities(set(best_score.FN), type="FN", append=True, ...)
compare_FN ==
    /\ variant = "report"
    /\ pc = "FP written"
    /\ \E order \in orders(mismatches.FN) :
          files' = [files EXCEPT ![discrepancy_file] =
                        compare_entities(@, order, "FN", TRUE)]
    /\ pc' = "FN written"
    /\ UNCHANGED reportFrame

ReportNext == output_train \/ output_test \/ output_dev \/ compare_FP \/ compare_FN

ReportSpec == ReportInit /\ [][ReportNext]_vars

\* ------------------------------------------------------------ normalizers
\* A string is a sequence of tokens; the tokens " ", "@" and "±" are single
\* characters, a number or a unit is one token.

\* x.strip()
RECURSIVE lstrip(_)
lstrip(str) == IF str # <<>> /\ Head(str) = " " THEN lstrip(Tail(str)) ELSE str
RECURSIVE rstrip(_)
rstrip(str) ==
    IF str # <<>> /\ str[Len(str)] = " " THEN rstrip(SubSeq(str, 1, Len(str) - 1)) ELSE str
strip(str) == lstrip(rstrip(str))

\* str.split(sep) for a one-character sep: the list of the pieces, empty
\* pieces included
RECURSIVE split_from(_, _, _, _)
split_from(str, sep, k, piece) ==
    IF k > Len(str) THEN <<piece>>
    ELSE IF str[k] = sep THEN <<piece>> \o split_from(str, sep, k + 1, <<>>)
    ELSE split_from(str, sep, k + 1, Append(piece, str[k]))
str_split(str, sep) == split_from(str, sep, 1, <<>>)

\* the values a call can end with
ReturnsNone == [kind |-> "None"]
ReturnsStr(text) == [kind |-> "str", text |-> text]
ReturnsDict(value, condition) == [kind |-> "dict", value |-> value, condition |-> condition]
Raises(name) == [kind |-> "raised", exc |-> name]

\* split_val_condition: the unpacking of a list that does not have two
\* elements raises ValueError, which the except branch answers
split_val_condition(input_string) ==
    LET pieces == str_split(input_string, "@")
    IN  IF Len(pieces) = 2
        THEN ReturnsDict(strip(pieces[1]), ReturnsStr(strip(pieces[2])))
        ELSE ReturnsDict(strip(input_string), ReturnsNone)

\* float(value) succeeds on a number token; str(float) writes it with a
\* decimal point
Numbers == {"5"}
float_raises(value) == Len(value) # 1 \/ value[1] \notin Numbers
str_float(value) == IF value[1] = "5" THEN "5.0" ELSE value[1]

\* the try block of gain_bandwidth_normalizer (the unit conversion is inside
\* a string literal and does not run)
gbp_raises(value) ==
    LET pieces == str_split(value, " ")
    IN  Len(pieces) # 2 \/ float_raises(pieces[1])
gbp_string(value) ==
    LET pieces == str_split(value, " ")
    IN  <<str_float(pieces[1]), " ">> \o pieces[2]

\* parse["value"].replace("± ", "±")
RECURSIVE replace_pm_space(_)
replace_pm_space(str) ==
    IF Len(str) < 2 THEN str
    ELSE IF str[1] = "±" /\ str[2] = " "
         THEN <<"±">> \o replace_pm_space(SubSeq(str, 3, Len(str)))
         ELSE <<str[1]>> \o replace_pm_space(Tail(str))

\* parse["value"].startswith("± ")
starts_with_pm_space(str) == Len(str) >= 2 /\ str[1] = "±" /\ str[2] = " "

\* the value opamp_voltage_normalizer splits at the blank
voltage_value(str) == IF starts_with_pm_space(str) THEN replace_pm_space(str) ELSE str

\* the inputs: [blank] [± [blank]] number [blank] unit [condition]
NormalizerInputs ==
    {lead \o sign \o <<"5">> \o sep \o <<unit>> \o rest :
        lead \in {<<>>, <<" ">>},
        sign \in {<<>>, <<"±">>, <<"±", " ">>},
        sep \in {<<" ">>, <<>>},
        unit \in {"V", "MHz", "kHz"},
        rest \in {<<>>, <<" ", "@", " ", "25C">>, <<"@">>, <<" ", "@", "25C", "@", "1k">>}}

NormInit ==
    /\ variant = "normalizers"
    /\ args \in NormalizerInputs
    /\ ret = <<>>
    /\ pc = "call"
    /\ gold_set = {}
    /\ logged = <<>>
    /\ exc = "none"
    /\ Y_prob = <<>>
    /\ candEnts = <<>>
    /\ i = 0
    /\ b = 0
    /\ best_result = InitialScore
    /\ best_b = 0
    /\ test_score = <<>>
    /\ true_pred = <<>>
    /\ results = <<>>
    /\ calls = 0
    /\ gold_rows = <<>>
    /\ docs = NoFilter
    /\ rows_read = 0
    /\ temp_dict = <<>>
    /\ mapIdle
    /\ reportIdle

callFrame == <<variant, gold_set, exc, sweepOnly, loaderVars, mapVars, reportVars, args>>

call_split_val_condition ==
    /\ variant = "normalizers"
    /\ pc = "call"
    /\ ret' = split_val_condition(args)
    /\ pc' = "split_val_condition"
    /\ UNCHANGED logged
    /\ UNCHANGED callFrame

\* gain_bandwidth_normalizer; at pdb.set_trace() the operator continues (the
\* function ends without a return) or quits
call_gain_bandwidth_normalizer ==
    /\ variant = "normalizers"
    /\ pc = "call"
    /\ LET parse == split_val_condition(args)
       IN  IF gbp_raises(parse.value)
           THEN /\ logged' = Append(logged, "[ERROR]: ")
                /\ ret' \in {ReturnsNone, Raises("BdbQuit")}
           ELSE /\ logged' = logged
                /\ ret' = ReturnsStr(gbp_string(parse.value))
    /\ pc' = "gain_bandwidth_normalizer"
    /\ UNCHANGED callFrame

\* opamp_voltage_normalizer; after a failed unpacking `unit` is unbound, so
\* continuing from the first pdb.set_trace() raises UnboundLocalError
call_opamp_voltage_normalizer ==
    /\ variant = "normalizers"
    /\ pc = "call"
    /\ LET parse == split_val_condition(args)
           pieces == str_split(voltage_value(parse.value), " ")
       IN  IF Len(pieces) # 2
           THEN /\ logged' = Append(logged, "[ERROR]: ")
                /\ ret' \in {Raises("UnboundLocalError"), Raises("BdbQuit")}
           ELSE IF pieces[2] # <<"V">>
           THEN /\ logged' = Append(logged, "[ERROR]: Invalid supply voltage")
                /\ ret' \in {ReturnsStr(pieces[1] \o <<" ">> \o pieces[2]),
                             Raises("BdbQuit")}
           ELSE /\ logged' = logged
                /\ ret' = ReturnsStr(pieces[1] \o <<" ">> \o pieces[2])
    /\ pc' = "opamp_voltage_normalizer"
    /\ UNCHANGED callFrame

NormNext ==
    \/ call_split_val_condition
    \/ call_gain_bandwidth_normalizer
    \/ call_opamp_voltage_normalizer

NormSpec == NormInit /\ [][NormNext]_vars

\* ------------------------------------------- ground truth and training data
\* what main passes for the arguments the classifier is not meant to see
TrainCands == {"train_cands[0]", "train_cands[1]"}
TrainFeatures == {"F_train[0]", "F_train[1]"}
GenerativeMarginals == {<<>>, <<<<0, 1>>>>}

\* flag = TRUE if an entity of c is in the gold set, else FALSE
dev_flag(entities, gold) == IF entities \cap gold # {} THEN TRUE_ ELSE FALSE_

\* [1.0, 0.0] if y == 1 else [0.0, 1.0]: position k of the row is column k - 1
one_hot_swapped(y) == IF y = 1 THEN <<0, 1>> ELSE <<1, 0>>
one_hot(y) == IF y = 1 THEN <<1, 0>> ELSE <<0, 1>>

\* the arguments of disc_model.train(X_dev, marginals, X_dev=X_dev, Y_dev=Y_dev, ...)
train_call_given_marginals(train_cands, F_train, marginals, X_dev, Y_dev) ==
    [X |-> X_dev,
     marginals |-> IF marginals = <<>> THEN [k \in DOMAIN Y_dev |-> one_hot(Y_dev[k])]
                   ELSE marginals,
     X_dev |-> X_dev,
     Y_dev |-> Y_dev]
train_call(train_cands, F_train, marginals, X_dev, Y_dev) ==
    [X |-> X_dev,
     marginals |-> [k \in DOMAIN Y_dev |-> one_hot(Y_dev[k])],
     X_dev |-> X_dev,
     Y_dev |-> Y_dev]

TrainInit ==
    /\ variant = "train"
    /\ args \in [dev_cands : [Cands -> SUBSET Entities],
                 dev_gold_entities : SUBSET Entities,
                 train_cands : TrainCands,
                 F_train : TrainFeatures,
                 marginals : GenerativeMarginals]
    /\ ret = [L_dev_gt |-> <<>>, train |-> <<>>]
    /\ pc = "label"
    /\ gold_set = {}
    /\ logged = <<>>
    /\ exc = "none"
    /\ Y_prob = <<>>
    /\ candEnts = <<>>
    /\ i = 0
    /\ b = 0
    /\ best_result = InitialScore
    /\ best_b = 0
    /\ test_score = <<>>
    /\ true_pred = <<>>
    /\ results = <<>>
    /\ calls = 0
    /\ gold_rows = <<>>
    /\ docs = NoFilter
    /\ rows_read = 0
    /\ temp_dict = <<>>
    /\ mapIdle
    /\ reportIdle

\* main: one iteration of `for c in dev_cands[0]`
label_dev_candidate ==
    /\ variant = "train"
    /\ pc = "label"
    /\ Len(ret.L_dev_gt) < NumCands
    /\ LET c == Len(ret.L_dev_gt) + 1
       IN  ret' = [ret EXCEPT !.L_dev_gt =
                       Append(@, dev_flag(args.dev_cands[c], args.dev_gold_entities))]
    /\ UNCHANGED <<pc, logged>>
    /\ UNCHANGED callFrame

\* main: discriminative_model(train_cands[0], F_train[0], marginals,
\* X_dev=(dev_cands[0], F_dev[0]), Y_dev=L_dev_gt, n_epochs=500)
discriminative_model ==
    /\ variant = "train"
    /\ pc = "label"
    /\ Len(ret.L_dev_gt) = NumCands
    /\ ret' = [ret EXCEPT !.train =
                   train_call(args.train_cands, args.F_train, args.marginals,
                              <<args.dev_cands, "F_dev[0]">>, ret.L_dev_gt)]
    /\ pc' = "trained"
    /\ UNCHANGED logged
    /\ UNCHANGED callFrame

TrainNext == label_dev_candidate \/ discriminative_model

TrainSpec == TrainInit /\ [][TrainNext]_vars

\* ------------------------------------------------------ labeling functions
\* A candidate as the labeling functions see it: the n-grams around the span
\* they look at (lower-cased where the function asks for it) and its page.
LfCandidates ==
    [row : SUBSET {"gain", "noise", "supply", "output"},
     col : SUBSET {"typ", "max"},
     cell : SUBSET {"f", "1", "2", "3"},
     right : SUBSET {"MHz"},
     vert : SUBSET {"max"},
     page : {1, 9}]

\* overlap(keywords, ngrams) of fonduer: the two share an element
overlap(keywords, ngrams) == keywords \cap ngrams # {}

ReturnsInt(n) == [kind |-> "int", value |-> n]

neg_low_page_num(c) == IF c.page > 8 THEN ReturnsInt(FALSE_) ELSE ReturnsInt(ABSTAIN)

\* the else branch evaluates ABSTAIN and returns nothing
pos_gain(c) ==
    IF overlap({"gain", "bandwidth", "unity"}, c.row) THEN ReturnsInt(TRUE_) ELSE ReturnsNone

pos_gain_keywords(c) ==
    IF overlap({"typ", "typ."}, c.col) THEN ReturnsInt(TRUE_) ELSE ReturnsInt(ABSTAIN)

neg_gain_keywords_in_cell(c) ==
    IF overlap({"g", "vo", "vpp", "f=", "f", "="}, c.cell)
    THEN ReturnsInt(FALSE_) ELSE ReturnsInt(ABSTAIN)

\* the else branch evaluates ABSTAIN and returns nothing
neg_gain_too_many_words_in_cell(c) ==
    IF Cardinality(c.cell) >= 4 THEN ReturnsInt(FALSE_) ELSE ReturnsNone

neg_gain_keywords_in_right_cell(c) ==
    IF ~overlap({"kHz", "MHz", "GHz"}, c.right)
    THEN ReturnsInt(FALSE_) ELSE ReturnsInt(ABSTAIN)

neg_gain_keywords_in_row(c) ==
    IF overlap({"small", "full", "flat", "current", "thd", "signal", "flatness",
                "input", "noise", "f=", "f", "-3", "power", "db", "dbm", "output",
                "impedence", "delay", "capacitance", "range", "ratio", "dbc",
                "temperature", "common", "voltage"}, c.row)
    THEN ReturnsInt(FALSE_) ELSE ReturnsInt(ABSTAIN)

neg_gain_keywords_in_column(c) ==
    IF overlap({"max", "min", "test", "condition", "conditions", "vgn", "f", "-3",
                "db", "dbc"}, c.col)
    THEN ReturnsInt(FALSE_) ELSE ReturnsInt(ABSTAIN)

pos_current(c) ==
    IF overlap({"supply", "quiescent", "iq", "is", "idd"}, c.row)
    THEN ReturnsInt(TRUE_) ELSE ReturnsInt(ABSTAIN)

pos_current_units(c) ==
    IF overlap({"ma", "μa", "ua", "µa", "<U+F06D>a"}, c.row)
    THEN ReturnsInt(TRUE_) ELSE ReturnsInt(ABSTAIN)

pos_current_typ(c) ==
    IF overlap({"typ", "typ."}, c.col) THEN ReturnsInt(TRUE_) ELSE ReturnsInt(ABSTAIN)

neg_current_keywords_in_column(c) ==
    IF overlap({"over", "temperature", "vgn", "f", "-3", "db", "dbc", "min", "max"}, c.col)
    THEN ReturnsInt(FALSE_) ELSE ReturnsInt(ABSTAIN)

neg_current_keywords_in_vert(c) ==
    IF overlap({"over", "temperature", "vgn", "f", "-3", "db", "dbc", "min", "max"}, c.vert)
    THEN ReturnsInt(FALSE_) ELSE ReturnsInt(ABSTAIN)

neg_current_keywords_in_row(c) ==
    IF overlap({"output", "drive", "voltage", "io"}, c.row)
    THEN ReturnsInt(FALSE_) ELSE ReturnsInt(ABSTAIN)

\* the lists gain_lfs and current_lfs, applied to a candidate
gain_lfs(c) ==
    <<pos_gain(c), pos_gain_keywords(c), neg_gain_keywords_in_row(c),
      neg_gain_keywords_in_column(c), neg_gain_keywords_in_cell(c),
      neg_gain_keywords_in_right_cell(c), neg_gain_too_many_words_in_cell(c),
      neg_low_page_num(c)>>
current_lfs(c) ==
    <<pos_current(c), pos_current_units(c), pos_current_typ(c),
      neg_current_keywords_in_row(c), neg_current_keywords_in_vert(c),
      neg_current_keywords_in_column(c), neg_low_page_num(c)>>

LfInit ==
    /\ variant = "labeling"
    /\ args \in LfCandidates
    /\ ret = <<>>
    /\ pc = "call"
    /\ gold_set = {}
    /\ logged = <<>>
    /\ exc = "none"
    /\ Y_prob = <<>>
    /\ candEnts = <<>>
    /\ i = 0
    /\ b = 0
    /\ best_result = InitialScore
    /\ best_b = 0
    /\ test_score = <<>>
    /\ true_pred = <<>>
    /\ results = <<>>
    /\ calls = 0
    /\ gold_rows = <<>>
    /\ docs = NoFilter
    /\ rows_read = 0
    /\ temp_dict = <<>>
    /\ mapIdle
    /\ reportIdle

apply_gain_lfs ==
    /\ variant = "labeling"
    /\ pc = "call"
    /\ ret' = gain_lfs(args)
    /\ pc' = "gain_lfs"
    /\ UNCHANGED logged
    /\ UNCHANGED callFrame

apply_current_lfs ==
    /\ variant = "labeling"
    /\ pc = "call"
    /\ ret' = current_lfs(args)
    /\ pc' = "current_lfs"
    /\ UNCHANGED logged
    /\ UNCHANGED callFrame

LfNext == apply_gain_lfs \/ apply_current_lfs

LfSpec == LfInit /\ [][LfNext]_vars

\* ------------------------------------------------------ probability dumps
\* A float is written here by its repr, which names a double uniquely; the
\* arithmetic below lists the IEEE 754 double results for the quantities of
\* DumpedGains and DumpedCurrents.
DumpedGains == {"1000000.0", "500000.0"}
DumpedCurrents == {"5e-06", "1.8e-06", "0.005"}

\* val.real / 1e3
real_div_1e3(x) ==
    CASE x = "1000000.0" -> "1000.0"
      [] x = "500000.0" -> "500.0"

\* val.real * 1e6
real_times_1e6(x) ==
    CASE x = "5e-06" -> "5.0"
      [] x = "1.8e-06" -> "1.7999999999999998"
      [] x = "0.005" -> "5000.0"

\* Quantity(f"{float(val)} kHz") and Quantity(f"{float(val)} uA"): the double
\* nearest to the decimal text scaled by the prefix
quantity_float(val, unit) ==
    IF unit = "kHz"
    THEN CASE val = "1000.0" -> "1000000.0"
           [] val = "500.0" -> "500000.0"
    ELSE CASE val = "5.0" -> "5e-06"
           [] val = "1.7999999999999998" -> "1.7999999999999997e-06"
           [] val = "5000.0" -> "0.005"

\* the candidates of a dump: the entity (doc, val) of each and its
\* probability Y_prob[i][TRUE - 1]
DumpCandidates(is_gain) ==
    [Cands -> [doc : UpperNames,
               val : IF is_gain THEN DumpedGains ELSE DumpedCurrents,
               p : Probs]]

\* dump_candidates: the rows [doc, val.real / 1e3 or val.real * 1e6, p] of the file
dump_lines(cands, is_gain) ==
    [c \in DOMAIN cands |->
        <<cands[c].doc,
          IF is_gain THEN real_div_1e3(cands[c].val) ELSE real_times_1e6(cands[c].val),
          cands[c].p>>]

\* get_entity_set(file, b, is_gain): the lines with float(score) > b
read_entities(lines, t, is_gain) ==
    {<<upper(lines[k][1]), quantity_float(lines[k][2], IF is_gain THEN "kHz" ELSE "uA")>> :
        k \in {n \in DOMAIN lines : accepts(lines[n][3], t)}}

DumpInit ==
    /\ variant = "dump"
    /\ \E g \in BOOLEAN :
          args \in [is_gain : {g}, cands : DumpCandidates(g), b : Grid]
    /\ ret = <<>>
    /\ files = <<>>
    /\ datasets = <<>>
    /\ mismatches = <<>>
    /\ pc = "dump"
    /\ gold_set = {}
    /\ logged = <<>>
    /\ exc = "none"
    /\ Y_prob = <<>>
    /\ candEnts = <<>>
    /\ i = 0
    /\ b = 0
    /\ best_result = InitialScore
    /\ best_b = 0
    /\ test_score = <<>>
    /\ true_pred = <<>>
    /\ results = <<>>
    /\ calls = 0
    /\ gold_rows = <<>>
    /\ docs = NoFilter
    /\ rows_read = 0
    /\ temp_dict = <<>>
    /\ mapIdle

dumpFrame == <<variant, gold_set, logged, exc, sweepOnly, loaderVars, mapVars,
               datasets, mismatches, args>>

\* opamps.main: dump_candidates(test_cands[k], Y_prob, "..._test_probs.csv", is_gain=...)
write_dump ==
    /\ variant = "dump"
    /\ pc = "dump"
    /\ files' = (probs_file("test", args.is_gain) :> dump_lines(args.cands, args.is_gain))
    /\ pc' = "dumped"
    /\ UNCHANGED ret
    /\ UNCHANGED dumpFrame

\* analysis.main: get_entity_set(test_file, b=b, is_gain=is_gain)
read_dump ==
    /\ variant = "dump"
    /\ pc = "dumped"
    /\ ret' = read_entities(files[probs_file("test", args.is_gain)], args.b, args.is_gain)
    /\ pc' = "read"
    /\ UNCHANGED files
    /\ UNCHANGED dumpFrame

DumpNext == write_dump \/ read_dump

DumpSpec == DumpInit /\ [][DumpNext]_vars

\* ------------------------------------------------------------------ claims
Returned == pc = "done"
Scores == {results[k][2] : k \in DOMAIN results}
Evaluated == {results[k][1] : k \in DOMAIN results}

\* the candidates (rows) the sweep of this variant accepts at threshold t
AcceptedAt(t) ==
    IF variant = "analysis" THEN get_entity_set(t) ELSE where_true(partition(t))
PredictedAt(t) == Range(entity_stream(AcceptedAt(t)))

\* C1 as stated: the F1 of the returned Score is >= the F1 computed at every
\* threshold the sweep evaluated.
C1_ReturnedF1IsMaximal ==
    Returned => \A s \in Scores : fge(best_result.f1, s.f1)

\* C1 amended: the F1 of the returned Score is >= the F1 computed at every
\* evaluated threshold whose F1 is a number; a NaN F1 (no predicted entity, or no
\* predicted entity in the gold set) orders against nothing.
C1_ReturnedF1IsMaximalOfNumbers ==
    Returned => \A s \in Scores : ~IsNaN(s.f1) => fge(best_result.f1, s.f1)

\* the sweep returned after evaluating a threshold with a lower F1 than the best
\* and a threshold with a NaN F1
C1_Witness ==
    /\ Returned
    /\ \E s \in Scores : fgt(best_result.f1, s.f1)
    /\ \E s \in Scores : IsNaN(s.f1)

\* C2: an exception raised by a step of scoring (partition, entity mapping or
\* scoring) never leaves the sweep: the sweep stops, logs it and returns the best
\* Score and threshold of the thresholds evaluated before.
C2_NoExceptionLeavesTheSweep ==
    variant \in {"opamps", "transistors"} =>
        /\ pc # "raised"
        /\ exc = "none"
        /\ (logged # <<>> => /\ Returned
                             /\ \/ best_result = InitialScore /\ best_b = 0
                                \/ <<best_b, best_result>> \in Range(results))

\* C3: the best threshold is the lowest of the evaluated thresholds whose F1
\* equals the best F1: a later threshold with the same F1 never replaces it.
C3_TiesKeepTheEarlierThreshold ==
    \A k \in DOMAIN results :
        feq(results[k][2].f1, best_result.f1) =>
            /\ best_b <= results[k][1]
            /\ best_result = results[CHOOSE j \in DOMAIN results : results[j][1] = best_b][2]

\* two evaluated thresholds share the maximal F1 and the sweep has returned
C3_Witness ==
    /\ Returned
    /\ \E j, k \in DOMAIN results :
        /\ j < k
        /\ feq(results[j][2].f1, best_result.f1)
        /\ feq(results[k][2].f1, best_result.f1)

\* C4 as stated: unless entity mapping throws, the sweep has evaluated every grid
\* threshold, the last one included, when it returns.
C4_FullGridEvaluated ==
    (Returned /\ "AttributeError" \notin Range(logged)) => Evaluated = Grid

\* C4 amended: unless entity mapping throws, scoring has evaluated exactly the
\* grid thresholds at which at least one candidate is accepted when it returns
\* (the partition raises at the first threshold that accepts none, so 1.0 is
\* never evaluated); analysis.main has evaluated every grid threshold.
C4_GridEvaluatedUpToEmptyPartition ==
    (Returned /\ "AttributeError" \notin Range(logged)) =>
        Evaluated = IF variant = "analysis" THEN Grid
                    ELSE {t \in Grid : \E c \in Cands : Y_prob[c] > t}

\* scoring returned after two evaluated thresholds and a partition that raised
C4_Witness ==
    /\ Returned
    /\ variant = "opamps"
    /\ Len(results) >= 2
    /\ Len(results) < NumGrid
    /\ logged = <<"ValueError">>

\* every step moves the sweep forward: the rank drops with each step
Rank ==
    CASE pc = "start" -> NumGrid + 4
      [] pc = "pdb" -> NumGrid + 3
      [] pc = "loop" -> NumGrid + 1 - i
      [] OTHER -> 0

C6_StrictThreshold ==
    /\ test_score # <<>> =>
        \A c \in Cands :
            /\ test_score[c] \in {TRUE_, FALSE_}
            /\ test_score[c] # ABSTAIN
            /\ test_score[c] = TRUE_ <=> Y_prob[c] > b
            /\ Y_prob[c] = b => test_score[c] = FALSE_
    /\ (variant = "analysis" /\ calls > 0) =>
        \A c \in Cands :
            c \in Range(true_pred) <=> (Y_prob[c] > b /\ candEnts[c] # {})

\* a partition at a threshold above 0 with a candidate exactly at the threshold
\* (rejected) and one above it (accepted)
C6_Witness ==
    /\ test_score # <<>>
    /\ b > 0
    /\ \E c, d \in Cands :
        /\ Y_prob[c] = b /\ test_score[c] = FALSE_
        /\ Y_prob[d] > b /\ test_score[d] = TRUE_

Occurrences(e, seq) == Cardinality({k \in DOMAIN seq : seq[k] = e})

\* C7: TP, FP and FN of every Score are the intersection and the two differences
\* of the predicted and the gold entities taken as sets: an entity is in exactly
\* the list its membership decides, once, however many candidates produced it.
C7_ConfusionMatrixOnSets ==
    \A k \in DOMAIN results :
        LET t == results[k][1]
            s == results[k][2]
            stream == entity_stream(AcceptedAt(t))
        IN  \A e \in Entities :
                /\ Occurrences(e, s.TP) =
                       IF Occurrences(e, stream) > 0 /\ e \in gold_set THEN 1 ELSE 0
                /\ Occurrences(e, s.FP) =
                       IF Occurrences(e, stream) > 0 /\ e \notin gold_set THEN 1 ELSE 0
                /\ Occurrences(e, s.FN) =
                       IF Occurrences(e, stream) = 0 /\ e \in gold_set THEN 1 ELSE 0

\* a Score whose TP holds an entity that two accepted candidates produced and whose
\* FP holds another such entity or whose FN is non-empty
C7_Witness ==
    \E k \in DOMAIN results :
        LET stream == entity_stream(AcceptedAt(results[k][1]))
        IN  /\ \E e \in Range(results[k][2].TP) : Occurrences(e, stream) >= 2
            /\ results[k][2].FP # <<>> \/ results[k][2].FN # <<>>

\* C8: precision = |TP| / (|TP| + |FP|), NaN for a zero denominator; recall =
\* |TP| / (|TP| + |FN|), NaN for a zero denominator; F1 = 2 * precision * recall /
\* (precision + recall), NaN when precision and recall are both 0.
C8_PrecisionRecallF1 ==
    \A s \in Scores :
        LET tp == Len(s.TP)
            fp == Len(s.FP)
            fn == Len(s.FN)
        IN  /\ s.prec = IF tp + fp = 0 THEN NaN ELSE Frac(tp, tp + fp)
            /\ s.rec = IF tp + fn = 0 THEN NaN ELSE Frac(tp, tp + fn)
            /\ (s.prec = FromInt(0) /\ s.rec = FromInt(0)) => IsNaN(s.f1)
            /\ (IsNaN(s.prec) \/ IsNaN(s.rec)) => IsNaN(s.f1)
            /\ tp > 0 => /\ s.f1 = Frac(2 * tp, 2 * tp + fp + fn)
                         /\ feq(fmul(s.f1, fadd(s.prec, s.rec)),
                                fmul(FromInt(2), fmul(s.prec, s.rec)))

\* Scores with a NaN precision, with precision = recall = 0, and with a
\* precision, recall and F1 strictly between 0 and 1 have been computed
C8_Witness ==
    /\ \E s \in Scores : IsNaN(s.prec) /\ s.rec = FromInt(0)
    /\ \E s \in Scores : s.prec = FromInt(0) /\ s.rec = FromInt(0) /\ IsNaN(s.f1)
    /\ \E s \in Scores :
        /\ fgt(s.prec, FromInt(0)) /\ fgt(FromInt(1), s.prec)
        /\ fgt(s.f1, FromInt(0)) /\ fgt(FromInt(1), s.f1)

\* C9: a predicted entity set equal to a non-empty gold set scores
\* precision = recall = F1 = 1.0 with TP = gold and FP = FN = empty.
C9_GoldAgainstItself ==
    \A k \in DOMAIN results :
        (PredictedAt(results[k][1]) = gold_set /\ gold_set # {}) =>
            /\ results[k][2].prec = FromInt(1)
            /\ results[k][2].rec = FromInt(1)
            /\ results[k][2].f1 = FromInt(1)
            /\ Range(results[k][2].TP) = gold_set
            /\ Len(results[k][2].TP) = Cardinality(gold_set)
            /\ results[k][2].FP = <<>>
            /\ results[k][2].FN = <<>>

\* the predicted entities of an evaluated threshold are a gold set of two entities
C9_Witness ==
    \E k \in DOMAIN results :
        PredictedAt(results[k][1]) = gold_set /\ Cardinality(gold_set) >= 2

\* C10: an empty predicted entity set scored against a non-empty gold set gives
\* precision = NaN, recall = 0.0, FN = gold and TP = FP = empty.
C10_EmptyPrediction ==
    \A k \in DOMAIN results :
        (PredictedAt(results[k][1]) = {} /\ gold_set # {}) =>
            /\ IsNaN(results[k][2].prec)
            /\ results[k][2].rec = FromInt(0)
            /\ Range(results[k][2].FN) = gold_set
            /\ Len(results[k][2].FN) = Cardinality(gold_set)
            /\ results[k][2].TP = <<>>
            /\ results[k][2].FP = <<>>

\* an evaluated threshold predicted no entity while the gold set has two
C10_Witness ==
    \E k \in DOMAIN results :
        PredictedAt(results[k][1]) = {} /\ Cardinality(gold_set) >= 2

\* every reordering of a list
Reorderings(seq) ==
    LET n == Len(seq)
        bij == {f \in [1..n -> 1..n] : \A x, y \in 1..n : x # y => f[x] # f[y]}
    IN  {[k \in 1..n |-> seq[f[k]]] : f \in bij}

Ascending(seq) == \A j, k \in DOMAIN seq : j < k => seq[j] < seq[k]

\* C11: the Score does not depend on the order in which the accepted candidates
\* (and with them the predicted entities) are supplied: every reordering gives
\* the same precision, recall, F1 and the same TP, FP and FN lists, and each of
\* these lists is in sorted order.
C11_OrderIndependent ==
    \A k \in DOMAIN results :
        LET s == results[k][2]
        IN  /\ \A cs \in Reorderings(AcceptedAt(results[k][1])) :
                   entity_level_scores(cs) = s
            /\ Ascending(s.TP) /\ Ascending(s.FP) /\ Ascending(s.FN)

\* a Score of two accepted candidates whose entities arrive in descending order
\* and whose TP list holds two entities
C11_Witness ==
    \E k \in DOMAIN results :
        LET acc == AcceptedAt(results[k][1])
        IN  /\ Len(acc) >= 2
            /\ ~Ascending(entity_stream(acc))
            /\ Len(results[k][2].TP) >= 2

\* C24 as stated: the returned Score is the Score entity-level scoring produced
\* at the returned threshold best_b, for every input.
C24_ReturnedScoreIsTheScoreAtBestB ==
    (Returned /\ variant \in Variants) =>
        /\ <<best_b, best_result>> \in Range(results)
        /\ best_result = entity_level_scores(AcceptedAt(best_b))

\* C24 amended: when some evaluated threshold has an F1 above 0, the returned
\* Score is the Score produced at best_b; otherwise the sweep returns the
\* initial Score(0, 0, 0, [], [], []) with best_b = 0, which no threshold
\* produced.
C24_ReturnedScoreIsTheScoreAtBestBOrInitial ==
    (Returned /\ variant \in Variants) =>
        IF \E s \in Scores : improves(s, InitialScore)
        THEN /\ <<best_b, best_result>> \in Range(results)
             /\ best_result = entity_level_scores(AcceptedAt(best_b))
        ELSE /\ best_result = InitialScore
             /\ best_b = 0
             /\ <<best_b, best_result>> \notin Range(results)

\* the sweep returned a Score found at a threshold above 0
C24_Witness ==
    /\ Returned
    /\ variant \in Variants
    /\ best_b > 0
    /\ <<best_b, best_result>> \in Range(results)

\* C25: for thresholds b1 <= b2 the candidates (rows) accepted at b2 are
\* among those accepted at b1, so along the sweep the TP set never grows and
\* recall never increases.
C25_AcceptedSetShrinks ==
    variant \in Variants =>
        /\ \A t1, t2 \in Grid :
              t1 <= t2 => Range(AcceptedAt(t2)) \subseteq Range(AcceptedAt(t1))
        /\ \A j, k \in DOMAIN results :
              j < k =>
                  /\ results[j][1] < results[k][1]
                  /\ Range(results[k][2].TP) \subseteq Range(results[j][2].TP)
                  /\ fge(results[j][2].rec, results[k][2].rec)

\* the TP set and the recall dropped between two evaluated thresholds
C25_Witness ==
    /\ variant \in Variants
    /\ \E j, k \in DOMAIN results :
          /\ j < k
          /\ Range(results[k][2].TP) # Range(results[j][2].TP)
          /\ fgt(results[j][2].rec, results[k][2].rec)
          /\ Range(AcceptedAt(results[k][1])) # Range(AcceptedAt(results[j][1]))

\* ----------------------------------------------------- claims on get_gold_set
\* the rows the loader has gone through without raising
Processed ==
    IF pc = "raised" /\ exc = "ValueError" THEN 1..(rows_read - 1) ELSE 1..rows_read

\* the processed rows of document `doc` (as written) and attribute `attr`
\* that the docs filter lets through
RowsOf(doc, attr) ==
    {k \in Processed : /\ gold_rows[k].cols = 4
                       /\ gold_rows[k].doc = doc
                       /\ gold_rows[k].attr = attr
                       /\ passes(doc, docs)}

Attrs == {"typ_gbp", "typ_supply_current"}

\* the value strings a row is expected to leave behind
ExpectedStrings(val) ==
    IF val.sign = "±"
    THEN {[val EXCEPT !.sign = ""],
          [val EXCEPT !.sign = "", !.num = 2 * val.num, !.dec = TRUE]}
    ELSE {val}

\* C12: a row of typ_gbp or typ_supply_current whose value starts with ±
\* records exactly two values for its document and attribute, the value
\* without the sign and twice that magnitude with the same unit; a value
\* without ± records exactly itself.
C12_PlusMinusRecordsTwoValues ==
    \A doc \in DOMAIN temp_dict : \A attr \in Attrs :
        /\ temp_dict[doc][attr] =
               UNION {ExpectedStrings(gold_rows[k].val) : k \in RowsOf(doc, attr)}
        /\ \A k \in RowsOf(doc, attr) :
               Cardinality(ExpectedStrings(gold_rows[k].val)) =
                   IF gold_rows[k].val.sign = "±" THEN 2 ELSE 1

C12_Witness ==
    /\ pc = "done"
    /\ \E doc \in DOMAIN temp_dict :
          /\ \E k \in RowsOf(doc, "typ_gbp") : gold_rows[k].val.sign = "±"
          /\ \E k \in RowsOf(doc, "typ_supply_current") : gold_rows[k].val.sign = ""
          /\ Cardinality(temp_dict[doc]["typ_gbp"]) = 2
          /\ Cardinality(temp_dict[doc]["typ_supply_current"]) = 1

\* the magnitudes a row stands for
Magnitudes(k) ==
    LET val == gold_rows[k].val
    IN  IF val.sign = "±"
        THEN {val.num * prefix(val.unit), 2 * val.num * prefix(val.unit)}
        ELSE {val.num * prefix(val.unit)}

PairsOf(doc) ==
    {<<upper(doc), g, c>> :
        g \in UNION {Magnitudes(k) : k \in RowsOf(doc, "typ_gbp")},
        c \in UNION {Magnitudes(k) : k \in RowsOf(doc, "typ_supply_current")}}

\* C13: the gold set is exactly the cross product, document by document, of
\* the recorded typ_gbp values and the recorded typ_supply_current values; a
\* document with values of only one attribute contributes nothing.
C13_GoldSetIsCrossProduct ==
    pc = "done" => gold_set = UNION {PairsOf(doc) : doc \in DocNames}

C13_Witness ==
    /\ pc = "done"
    /\ Cardinality(gold_set) = 4
    /\ Len(gold_rows) = 2

C13_WitnessOneAttribute ==
    /\ pc = "done"
    /\ gold_set = {}
    /\ \E doc \in DocNames :
          /\ RowsOf(doc, "typ_gbp") # {}
          /\ RowsOf(doc, "typ_supply_current") = {}

\* C14: every gold entity carries an upper-cased document name, rows whose
\* document names differ only in letter case are paired as rows of one
\* document, and a docs filter lets through only rows whose upper-cased
\* document is in the filter.
C14_GroupedUnderUppercasedName ==
    pc = "done" =>
        /\ \A e \in gold_set :
              /\ e[1] \in UpperNames
              /\ docs.given => e[1] \in docs.names
        /\ \A d1 \in DocNames, d2 \in DocNames :
              upper(d1) = upper(d2) =>
                  \A j \in RowsOf(d1, "typ_gbp"), k \in RowsOf(d2, "typ_supply_current") :
                      \A g \in Magnitudes(j), c \in Magnitudes(k) :
                          <<upper(d1), g, c>> \in gold_set

\* --------------------------------------------------- claims on cand_to_entity
Mapped == variant = "cand_to_entity" /\ pc \in {"returned", "scored"}

GainUnitsInRow == cand.gain_row \cap {"kHz", "MHz", "GHz"}
CurrentUnitsInRow == cand.current_row \cap {"mA", "<U+F06D>A"}

\* the power of ten a unit string stands for (Hz for gains, uA for currents)
ExponentOf(unit) ==
    CASE unit \in {"kHz", "mA"} -> 3
      [] unit \in {"MHz", "A"} -> 6
      [] unit = "GHz" -> 9
      [] OTHER -> 0
RECURSIVE PowerOfTen(_)
PowerOfTen(n) == IF n = 0 THEN 1 ELSE 10 * PowerOfTen(n - 1)

\* the physical magnitude of a number written with a unit
Physical(n, unit) == n * PowerOfTen(ExponentOf(unit))

TheUnit(units) == CHOOSE u \in units : TRUE

Parses(text) == text.form = "ok"

\* C15: cand_to_entity yields nothing when the row of either span holds more
\* than one distinct unit token or none; it yields only when exactly one unit
\* token is found for each span, and then the quantities are the span
\* texts read with exactly those units.
C15_ExactlyOneUnitPerSpan ==
    Mapped =>
        /\ (Cardinality(GainUnitsInRow) # 1 \/ Cardinality(CurrentUnitsInRow) # 1)
               => yielded = <<>>
        /\ yielded # <<>> =>
               /\ Cardinality(GainUnitsInRow) = 1
               /\ Cardinality(CurrentUnitsInRow) = 1
               /\ \A k \in DOMAIN yielded :
                     /\ yielded[k][2] = Physical(cand.gain.num, TheUnit(GainUnitsInRow))
                     /\ yielded[k][3] \in
                            {Physical(cand.current.num, TheUnit(CurrentUnitsInRow)),
                             Physical(2 * cand.current.num, TheUnit(CurrentUnitsInRow))}

C15_Witness ==
    /\ Mapped
    /\ Len(yielded) = 1
    /\ cand.gain_row = {"MHz", "typ"}
    /\ cand.current_row = {"<U+F06D>A", "V"}
    /\ yielded[1][2] = 1000000000

\* C16: cand_to_entity yields zero, one or two entities, all with the
\* candidate's upper-cased document; where it yields, it yields two (the
\* doubled and the plain magnitude of the current) exactly when the current
\* span starts with ±, the expansion get_gold_set applies to gold values; a
\* span that does not parse yields nothing, and no exception leaves the call.
C16_ZeroOneOrTwoEntities ==
    Mapped =>
        /\ Len(yielded) \in 0..2
        /\ exc = "none"
        /\ \A k \in DOMAIN yielded :
              yielded[k][1] = (IF cand.doc = "lm358" THEN "LM358" ELSE cand.doc)
        /\ Len(yielded) = 1 => cand.current.sign = ""
        /\ Len(yielded) = 2 =>
              /\ cand.current.sign = "±"
              /\ yielded[1][3] = 2 * yielded[2][3]
              /\ yielded[2][3] = Physical(cand.current.num, TheUnit(CurrentUnitsInRow))
              /\ {yielded[1][3], yielded[2][3]} =
                    {Quantity(x) : x \in recorded(with_unit(cand.current, current_unit))}
        /\ ( /\ Cardinality(GainUnitsInRow) = 1
             /\ Cardinality(CurrentUnitsInRow) = 1
             /\ Parses(cand.gain) /\ cand.gain.sign = ""
             /\ Parses(cand.current) )
               => Len(yielded) = (IF cand.current.sign = "±" THEN 2 ELSE 1)
        /\ (~Parses(cand.gain) \/ ~Parses(cand.current)) => yielded = <<>>

C16_Witness ==
    /\ Mapped
    /\ Len(yielded) = 2
    /\ cand.doc = "lm358"
    /\ yielded[1] = <<"LM358", 1000000, 10000>>

C16_WitnessUnparsable ==
    /\ Mapped
    /\ pc = "scored"
    /\ Cardinality(GainUnitsInRow) = 1
    /\ Cardinality(CurrentUnitsInRow) = 1
    /\ ~Parses(cand.current)
    /\ logged = <<"is not valid.">>

\* the strings the k-th yielded entity was built from: <<gain, current>>
YieldedFrom(k) ==
    LET g == with_unit(cand.gain, TheUnit(GainUnitsInRow))
        c == with_unit(cand.current, TheUnit(CurrentUnitsInRow))
    IN  IF Len(yielded) = 2 /\ k = 1
        THEN <<g, [c EXCEPT !.sign = "", !.num = 2 * c.num]>>
        ELSE <<g, [c EXCEPT !.sign = ""]>>

SameMagnitude(x, y) == Physical(x.num, x.unit) = Physical(y.num, y.unit)

\* C17: entities of one document whose quantities have the same magnitude
\* once the unit prefix is applied are equal, whatever unit strings they were
\* written with, so such a predicted entity is a true positive; quantities of
\* different magnitude are never equal.
C17_EqualMagnitudesAreEqual ==
    (variant = "cand_to_entity" /\ pc = "scored") =>
        \A k \in DOMAIN yielded :
            yielded[k] \in matrix.TP <=>
                /\ cand.doc \in {"lm358", "LM358"}
                /\ \E g \in ExpectedStrings(gold_rows[1].val) :
                       SameMagnitude(YieldedFrom(k)[1], g)
                /\ \E c \in ExpectedStrings(gold_rows[2].val) :
                       SameMagnitude(YieldedFrom(k)[2], c)

C17_Witness ==
    /\ variant = "cand_to_entity"
    /\ pc = "scored"
    /\ Cardinality(matrix.TP) = 1
    /\ gain_unit = "kHz" /\ gold_rows[1].val.unit = "MHz"
    /\ current_unit = "μA" /\ gold_rows[2].val.unit = "mA"

\* ------------------------------------------------- claims on malformed input
WellFormed(k) == gold_rows[k].cols = 4 /\ gold_rows[k].val.form = "ok"

PairsOfWellFormed(doc) ==
    {<<upper(doc), g, c>> :
        g \in UNION {Magnitudes(k) : k \in {r \in RowsOf(doc, "typ_gbp") : WellFormed(r)}},
        c \in UNION {Magnitudes(k) :
                        k \in {r \in RowsOf(doc, "typ_supply_current") : WellFormed(r)}}}

\* C18: a malformed gold row (a value that does not parse, a wrong number of
\* columns) is skipped without aborting the load, and the entities of the
\* other rows are what they would be without it.
C18_MalformedRowSkipped ==
    variant = "get_gold_set" =>
        /\ pc # "raised"
        /\ pc = "done" =>
              gold_set = UNION {PairsOfWellFormed(doc) : doc \in DocNames}

\* C19: with an empty gold set an error is logged and the run is aborted: no
\* Score is computed, the sweep does not return, and no threshold is
\* evaluated once the error is logged.
C19_EmptyGoldAborts ==
    (variant \in {"opamps", "analysis"} /\ gold_set = {}) =>
        /\ results = <<>>
        /\ pc # "done"
        /\ "Gold is empty" \in Range(logged) => calls = 0

\* ------------------------------------------------------ claims on the reports
IsHeader(row) == row \in {header(TRUE), header(FALSE)}

SplitRank(split) == CASE split = "train" -> 1 [] split = "test" -> 2 [] OTHER -> 3

\* row x is written before row y by main's sequence train, test, dev
Before(x, y) ==
    \/ SplitRank(x[3]) < SplitRank(y[3])
    \/ x[3] = y[3] /\ x[4] < y[4]
    \/ x[3] = y[3] /\ x[4] = y[4] /\ x[5] < y[5]

\* the data rows main's splits up to rank r give for one attribute
RowsUpTo(g, r) ==
    {row \in {<<"output", g, sp, j, k>> : sp \in Splits, j \in 1..MaxCands, k \in 1..2} :
        /\ SplitRank(row[3]) <= r
        /\ row[4] <= Len(datasets[row[3]])
        /\ row[5] <= datasets[row[3]][row[4]]}

\* the report of attribute g holds one header row and then the rows of the
\* splits up to rank r, in order
ReportHolds(g, r) ==
    LET f == files[filename(g)]
    IN  /\ Len(f) >= 1
        /\ f[1] = header(g)
        /\ \A k \in 2..Len(f) : ~IsHeader(f[k])
        /\ {f[k] : k \in 2..Len(f)} = RowsUpTo(g, r)
        /\ \A j, k \in 2..Len(f) : j < k => Before(f[j], f[k])

\* the number of output_csv calls main has made for attribute g
WrittenSplits(g) ==
    IF \E sp \in Splits : pc = at(g, sp)
    THEN SplitRank(CHOOSE sp \in Splits : pc = at(g, sp)) - 1
    ELSE IF \E sp \in Splits : pc = at(TRUE, sp) THEN 0 ELSE 3

\* C20: output_csv with append=False discards what the file held and writes
\* one header row before its rows, with append=True it adds its rows after
\* the content and writes no header; after train (overwrite), test (append),
\* dev (append) the report is one header row followed by the train, test and
\* dev rows in that order; in analysis.main the FN rows follow the FP rows in
\* the same discrepancy file.
C20_OverwriteThenAppend ==
    variant = "report" =>
        /\ \A g \in BOOLEAN : WrittenSplits(g) > 0 => ReportHolds(g, WrittenSplits(g))
        /\ pc = "FN written" =>
              LET f == files[discrepancy_file]
                  nFP == Cardinality(mismatches.FP)
              IN  /\ Len(f) = nFP + Cardinality(mismatches.FN)
                  /\ {f[k] : k \in 1..nFP} = {<<"FP", e>> : e \in mismatches.FP}
                  /\ {f[k] : k \in (nFP + 1)..Len(f)} = {<<"FN", e>> : e \in mismatches.FN}

C20_Witness ==
    /\ variant = "report"
    /\ pc = "FN written"
    /\ Len(files[filename(TRUE)]) = 6
    /\ Len(files[discrepancy_file]) >= 2
    /\ mismatches.FP # {} /\ mismatches.FN # {}

\* ----------------------------------------------------- claims on normalizers
\* C21: gain_bandwidth_normalizer returns the gain bandwidth product in kHz:
\* an input in MHz comes back as 1000 times its value, in kHz.
C21_GainBandwidthInKHz ==
    (pc = "gain_bandwidth_normalizer" /\ ret.kind = "str") =>
        /\ ret.text[Len(ret.text)] = "kHz"
        /\ "MHz" \in Range(args) => ret.text[1] = "5000.0"

\* C22: for an input with unit V, opamp_voltage_normalizer returns the value
\* without the ± sign ('±5 V' and '± 5 V' both give '5 V').
C22_VoltageSignRemoved ==
    (pc = "opamp_voltage_normalizer" /\ ret.kind = "str" /\ "V" \in Range(ret.text)) =>
        "±" \notin Range(ret.text)

\* C23: split_val_condition returns the condition None exactly when the
\* input holds no '@'; with an '@' the value is the stripped text before it
\* and the condition the stripped text after it, without one the value is
\* the stripped input.
C23_ConditionNoneIffNoAt ==
    pc = "split_val_condition" =>
        /\ ret.condition = ReturnsNone <=> "@" \notin Range(args)
        /\ "@" \notin Range(args) => ret.value = strip(args)

\* ------------------------------------------------ claims on the training data
\* C26: the ground-truth list has one entry per dev candidate, in candidate
\* order, TRUE exactly when an entity of the candidate is in the gold set
\* and FALSE otherwise; each label becomes a one-hot row with its 1 in
\* column label - 1, so column TRUE - 1 holds 1 exactly for the candidates
\* labelled TRUE.
C26_GroundTruthOneHot ==
    variant = "train" =>
        /\ \A k \in DOMAIN ret.L_dev_gt :
              /\ ret.L_dev_gt[k] \in {FALSE_, TRUE_}
              /\ ret.L_dev_gt[k] = TRUE_ <=>
                     \E e \in args.dev_cands[k] : e \in args.dev_gold_entities
        /\ pc = "trained" =>
              /\ Len(ret.L_dev_gt) = NumCands
              /\ DOMAIN ret.train.marginals = Cands
              /\ \A k \in Cands :
                    LET row == ret.train.marginals[k]
                        column(n) == row[n + 1]
                    IN  /\ column(ret.L_dev_gt[k] - 1) = 1
                        /\ column(0) + column(1) = 1
                        /\ column(TRUE_ - 1) = 1 <=> ret.L_dev_gt[k] = TRUE_

C26_Witness ==
    /\ variant = "train"
    /\ pc = "trained"
    /\ ret.L_dev_gt = <<TRUE_, FALSE_>>
    /\ args.dev_cands[2] # {}
    /\ ret.train.marginals = <<<<0, 1>>, <<1, 0>>>>

\* C27: what discriminative_model hands to the classifier depends only on
\* X_dev and Y_dev: calls that differ only in train_cands, F_train or the
\* generative marginals hand over the same data and the same target rows.
C27_TrainingIgnoresTrainSet ==
    (variant = "train" /\ pc = "trained") =>
        \A tc \in TrainCands, ft \in TrainFeatures, gm \in GenerativeMarginals :
            train_call(tc, ft, gm, <<args.dev_cands, "F_dev[0]">>, ret.L_dev_gt)
                = ret.train

C27_Witness ==
    /\ variant = "train"
    /\ pc = "trained"
    /\ args.marginals # <<>>
    /\ args.train_cands = "train_cands[1]"
    /\ ret.train.marginals # args.marginals

\* -------------------------------------------- claims on the labeling functions
\* C28: every labeling function of gain_lfs and current_lfs returns ABSTAIN,
\* FALSE or TRUE for every candidate, on every branch.
C28_LabelsAreAbstainFalseTrue ==
    (variant = "labeling" /\ pc \in {"gain_lfs", "current_lfs"}) =>
        \A k \in DOMAIN ret :
            ret[k] \in {ReturnsInt(ABSTAIN), ReturnsInt(FALSE_), ReturnsInt(TRUE_)}

\* ------------------------------------------------ claims on the probability dump
\* C29: every row dump_candidates writes for an entity (doc, q) with
\* probability p is read back by get_entity_set as the same entity (doc, q)
\* when b < p and is not read back when p <= b: the scaling on write is
\* undone by the unit attached on read.
C29_DumpRoundTrip ==
    (variant = "dump" /\ pc = "read") =>
        ret = {<<args.cands[c].doc, args.cands[c].val>> :
                  c \in {n \in Cands : args.b < args.cands[n].p}}

====
